---- MODULE Spec2Model ----
(***************************************************************************)
(* Model of cutout.py: the sigma-clipped background variance               *)
(* (get_background_variance), the padded square slice (arr_slice as used   *)
(* by cutouts) and the contour levels computed in cutouts2.                *)
(*                                                                         *)
(* Numbers are exact.  A sample is a record [nan, v]; a mean, a variance   *)
(* or the relative change `diff' is a record [k, n, d] that is a rational  *)
(* n/d in lowest terms (k = "num"), a not-a-number (k = "nan") or an       *)
(* infinity of the sign of n (k = "inf").  A standard deviation is the     *)
(* square root of such a rational and is only ever compared through its    *)
(* square.                                                                 *)
(***************************************************************************)
EXTENDS Integers, Sequences, FiniteSets, TLC

VARIABLES pc,          \* position in the routine being run
          data,        \* get_background_variance: the 1d input array
          sigma_clip,  \* get_background_variance: clip, a rational [n, d]
          tolerance,   \* get_background_variance: tolerance, a rational [n, d]
          mean,        \* get_background_variance: local `mean'
          data_clip,   \* get_background_variance: local `data_clip'
          diff,        \* get_background_variance: local `diff'
          iters,       \* number of times the body of the while loop has run
          variance,    \* value returned by get_background_variance
          local_rms,               \* cutouts2: local `local_rms'
          highest_number_of_sigma, \* cutouts2: local `highest_number_of_sigma'
          use_this_highest_power,  \* cutouts2: local `use_this_highest_power'
          contours,                \* cutouts2: local `contours'
          exc,                     \* cutouts2: the exception raised, "" for none
          arr,         \* cutouts: the parent raster fits.getdata(infrared_mosaic)
          isize,       \* cutouts: parameter `isize'
          ipix,        \* cutouts: integer pixel centre <<x, y>>
          oslicer,     \* cutouts: the slicer <<row start, row stop, col start, col stop>>
          icut         \* cutouts: the array returned by arr_slice

varsVar == <<data, sigma_clip, tolerance, mean, data_clip, diff, iters, variance>>
varsC2  == <<local_rms, highest_number_of_sigma, use_this_highest_power, contours, exc>>
varsCut == <<arr, isize, ipix, oslicer, icut>>
vars    == <<pc, varsVar, varsC2, varsCut>>

----------------------------------------------------------------------------
(* Bounds of the explored inputs. *)
MaxLen == 3        \* longest sample sequence
MaxAbs == 4        \* largest absolute value of a sample
MaxRun == 30       \* longest run of equal samples in a long array
IterCap == MaxRun + MaxLen + 3   \* no call is followed beyond this many iterations

----------------------------------------------------------------------------
(* Exact numbers. *)
Abs(x) == IF x < 0 THEN -x ELSE x

RECURSIVE Gcd(_, _)
Gcd(a, b) == IF b = 0 THEN a ELSE Gcd(b, a % b)

NaN == [k |-> "nan", n |-> 0, d |-> 1]
Inf(sign) == [k |-> "inf", n |-> sign, d |-> 1]

\* the rational a/b, b # 0, in lowest terms with a positive denominator
Rat(a, b) ==
    LET g == Gcd(Abs(a), Abs(b))
        s == IF b < 0 THEN -1 ELSE 1
    IN  [k |-> "num", n |-> (s * a) \div g, d |-> (s * b) \div g]

Sample(x) == [nan |-> FALSE, v |-> x]
NaNSample == [nan |-> TRUE, v |-> 0]
Samples == {Sample(x) : x \in -MaxAbs..MaxAbs} \cup {NaNSample}

RECURSIVE SeqsUpTo(_, _)
SeqsUpTo(S, n) ==
    IF n = 0 THEN {<<>>}
    ELSE LET shorter == SeqsUpTo(S, n - 1)
         IN  shorter \cup {Append(s, x) : s \in {t \in shorter : Len(t) = n - 1}, x \in S}

\* n copies of a followed by one b
Run(a, n, b) == [i \in 1..(n + 1) |-> IF i <= n THEN Sample(a) ELSE Sample(b)]

\* the 1d arrays handed to the routines: every short array, and the long
\* arrays that are constant but for their last entry
Arrays ==
    SeqsUpTo(Samples, MaxLen)
    \cup {Run(a, n, b) : a \in -MaxAbs..MaxAbs, b \in -MaxAbs..MaxAbs,
                         n \in {MaxRun \div 5, MaxRun}}

----------------------------------------------------------------------------
(* numpy reductions that ignore not-a-number entries *)
Finite(s) == SelectSeq(s, LAMBDA x : ~x.nan)

RECURSIVE Sum(_)
Sum(s) == IF s = <<>> THEN 0 ELSE Head(s).v + Sum(Tail(s))

RECURSIVE SumSq(_)
SumSq(s) == IF s = <<>> THEN 0 ELSE Head(s).v * Head(s).v + SumSq(Tail(s))

\* m^2 times the population variance of the finite entries of s (m of them)
Dev(s) == LET f == Finite(s) IN Len(f) * SumSq(f) - Sum(f) * Sum(f)

\* np.nanmean: the mean of the finite entries, nan when there is none
NanMean(s) == LET f == Finite(s) IN IF Len(f) = 0 THEN NaN ELSE Rat(Sum(f), Len(f))

\* np.nanvar: the population variance of the finite entries, nan when there is none
NanVar(s) == LET f == Finite(s) IN IF Len(f) = 0 THEN NaN ELSE Rat(Dev(s), Len(f) * Len(f))

\* np.abs(x) < mean + sigma_clip*np.nanstd(s): with mean = a/b,
\* nanstd(s) = sqrt(D)/m and sigma_clip = cn/cd this is L < R*sqrt(D) for
\* L = (|x|*b - a)*cd*m and R = cn*b; a comparison with a nan is False.
MaskLt(x, mn, clip, s) ==
    LET m == Len(Finite(s))
        L == (Abs(x.v) * mn.d - mn.n) * clip.d * m
        R == clip.n * mn.d
    IN  /\ ~x.nan
        /\ mn.k = "num"
        /\ m > 0
        /\ \/ L < 0
           \/ L * L < R * R * Dev(s)

\* data_clip[np.abs(data_clip) < mean + sigma_clip*np.nanstd(data_clip)]
Clip(s, mn, clip) == SelectSeq(s, LAMBDA x : MaskLt(x, mn, clip, s))

\* np.abs(mean - newmean)/(mean + newmean) on numpy floats: x/0 is an
\* infinity, 0/0 and anything with a nan is nan
RelChange(mn, newmn) ==
    IF mn.k # "num" \/ newmn.k # "num" THEN NaN
    ELSE LET num == Abs(mn.n * newmn.d - newmn.n * mn.d)
             den == mn.n * newmn.d + newmn.n * mn.d
         IN  IF den = 0 THEN (IF num = 0 THEN NaN ELSE Inf(1))
             ELSE Rat(num, den)

\* a comparison in which a nan compares as True, as `not diff <= tolerance'
GtNanTrue(x, tol) ==
    CASE x.k = "nan" -> TRUE
      [] x.k = "inf" -> x.n > 0
      [] OTHER       -> x.n * tol.d > tol.n * x.d

\* diff > tolerance; False when diff is nan
Gt(x, tol) ==
    CASE x.k = "nan" -> FALSE
      [] x.k = "inf" -> x.n > 0
      [] OTHER       -> x.n * tol.d > tol.n * x.d

----------------------------------------------------------------------------
(* 2d arrays: a shape and the cells at the 0-based indices <<row, col>> *)
MaxSide == 3       \* largest number of rows or columns of the parent raster
MaxSize == 4       \* largest requested cutout size
Reach == 2         \* how far outside the parent a pixel centre may lie

\* the indices of an array of shape (nr, nc)
Cells(nr, nc) == (0..(nr - 1)) \X (0..(nc - 1))

\* np.zeros((nr, nc))
Zeros(nr, nc) == [shape |-> <<nr, nc>>, cell |-> [p \in Cells(nr, nc) |-> 0]]

\* a raster whose cells are distinct and non-zero
Raster(nr, nc) ==
    [shape |-> <<nr, nc>>, cell |-> [p \in Cells(nr, nc) |-> p[1] * nc + p[2] + 1]]

\* Python's slice(start, stop).indices(n) for a step of 1: a negative index
\* counts from the end, and both ends are clamped to 0..n
SliceIndex(i, n) ==
    IF i < 0 THEN (IF i + n < 0 THEN 0 ELSE i + n)
    ELSE (IF i > n THEN n ELSE i)

SliceLen(start, stop, n) ==
    LET lo == SliceIndex(start, n)
        hi == SliceIndex(stop, n)
    IN  IF hi > lo THEN hi - lo ELSE 0

\* arr[slicer] for slicer = np.s_[r0:r1, c0:c1]
GetItem(a, sl) ==
    LET lo_r == SliceIndex(sl[1], a.shape[1])
        lo_c == SliceIndex(sl[3], a.shape[2])
        nr == SliceLen(sl[1], sl[2], a.shape[1])
        nc == SliceLen(sl[3], sl[4], a.shape[2])
    IN  [shape |-> <<nr, nc>>,
         cell  |-> [p \in Cells(nr, nc) |-> a.cell[<<lo_r + p[1], lo_c + p[2]>>]]]

\* temp[:sliced.shape[0], :sliced.shape[1]] = sliced
SetCorner(temp, sliced) ==
    [temp EXCEPT !.cell =
        [p \in DOMAIN temp.cell |->
            IF p[1] < sliced.shape[1] /\ p[2] < sliced.shape[2]
            THEN sliced.cell[p] ELSE temp.cell[p]]]

\* lines 140-146
arr_slice(a, sl, size) ==
    LET sliced == GetItem(a, sl)
    IN  IF sliced.shape[1] # sliced.shape[2]
        THEN SetCorner(Zeros(size, size), sliced)
        ELSE sliced

----------------------------------------------------------------------------
(* get_background_variance, one step of the code per action *)
SigmaClips == {[n |-> 1, d |-> 1], [n |-> 5, d |-> 1]}
Tolerances == {[n |-> 0, d |-> 1], [n |-> 1, d |-> 100], [n |-> 1, d |-> 2]}

\* the variables of the routines that are not running
IdleVar ==
    /\ sigma_clip = [n |-> 5, d |-> 1]
    /\ tolerance = [n |-> 1, d |-> 100]
    /\ mean = NaN
    /\ data_clip = <<>>
    /\ diff = NaN
    /\ iters = 0
    /\ variance = NaN

IdleC2 ==
    /\ local_rms = [k |-> "nan", s |-> 0, n |-> 1, d |-> 1]
    /\ highest_number_of_sigma = [k |-> "nan", s |-> 0, n |-> 1, d |-> 1]
    /\ use_this_highest_power = 0
    /\ contours = <<>>
    /\ exc = ""

IdleCut ==
    /\ arr = Zeros(0, 0)
    /\ isize = 0
    /\ ipix = <<0, 0>>
    /\ oslicer = <<0, 0, 0, 0>>
    /\ icut = Zeros(0, 0)

InitVar ==
    /\ pc = "idle"
    /\ data = <<>>
    /\ IdleVar
    /\ IdleC2
    /\ IdleCut

\* line 92: a call binds the parameters
Call ==
    /\ pc = "idle"
    /\ data' \in Arrays
    /\ sigma_clip' \in SigmaClips
    /\ tolerance' \in Tolerances
    /\ pc' = "call"
    /\ UNCHANGED <<mean, data_clip, diff, iters, variance, varsC2, varsCut>>

\* lines 107-109
Initialise ==
    /\ pc = "call"
    /\ diff' = Rat(1, 1)
    /\ mean' = NanMean(data)
    /\ data_clip' = data
    /\ pc' = "while"
    /\ UNCHANGED <<data, sigma_clip, tolerance, iters, variance, varsC2, varsCut>>

\* lines 110-114: the loop test holds and the body runs once
Iterate ==
    /\ pc = "while"
    /\ Gt(diff, tolerance)
    /\ iters < IterCap
    /\ \E clipped \in {Clip(data_clip, mean, sigma_clip)} :
         \E newmean \in {NanMean(clipped)} :
           /\ data_clip' = clipped
           /\ diff' = RelChange(mean, newmean)
           /\ mean' = newmean
    /\ iters' = iters + 1
    /\ UNCHANGED <<pc, data, sigma_clip, tolerance, variance, varsC2, varsCut>>

\* lines 110 and 115: the loop test fails and the variance is returned
Return ==
    /\ pc = "while"
    /\ ~Gt(diff, tolerance)
    /\ variance' = NanVar(data_clip)
    /\ pc' = "done"
    /\ UNCHANGED <<data, sigma_clip, tolerance, mean, data_clip, diff, iters, varsC2, varsCut>>

NextVar == Call \/ Initialise \/ Iterate \/ Return

SpecVar == InitVar /\ [][NextVar]_vars

\* once called, the routine runs its next statement as long as there is one
FairSpecVar == SpecVar /\ WF_vars(Initialise \/ Iterate \/ Return)

----------------------------------------------------------------------------
(* cutouts: the optical cutout, lines 268-288 *)
InitCut ==
    /\ pc = "idle"
    /\ data = <<>>
    /\ IdleVar
    /\ IdleC2
    /\ IdleCut

\* lines 245 and 268-270: the mosaic, the size and the integer pixel centre
CallCutouts ==
    /\ pc = "idle"
    /\ \E nr \in 1..MaxSide, nc \in 1..MaxSide : arr' = Raster(nr, nc)
    /\ isize' \in 1..MaxSize
    /\ ipix' \in ((-Reach)..(MaxSide + Reach)) \X ((-Reach)..(MaxSide + Reach))
    /\ pc' = "pix"
    /\ UNCHANGED <<oslicer, icut, data, varsVar, varsC2>>

\* lines 284-286; int(isize / 2.) truncates the half
MakeSlicer ==
    /\ pc = "pix"
    /\ \E half_isize \in {isize \div 2} :
         oslicer' = <<ipix[2] - half_isize, ipix[2] + half_isize,
                      ipix[1] - half_isize, ipix[1] + half_isize>>
    /\ pc' = "slicer"
    /\ UNCHANGED <<arr, isize, ipix, icut, data, varsVar, varsC2>>

\* line 288
SliceOptical ==
    /\ pc = "slicer"
    /\ icut' = arr_slice(arr, oslicer, isize)
    /\ pc' = "cut"
    /\ UNCHANGED <<arr, isize, ipix, oslicer, data, varsVar, varsC2>>

NextCut == CallCutouts \/ MakeSlicer \/ SliceOptical

SpecCut == InitCut /\ [][NextCut]_vars

----------------------------------------------------------------------------
(* cutouts2: the contour levels, lines 204-217.  A standard deviation or a *)
(* contour level is a record [k, s, n, d]: the number s * sqrt(n/d) with   *)
(* s in {-1, 0, 1} its sign (k = "num"), a not-a-number (k = "nan") or an  *)
(* infinity of sign s (k = "inf").                                         *)
NaNRoot == [k |-> "nan", s |-> 0, n |-> 1, d |-> 1]
InfRoot(sign) == [k |-> "inf", s |-> sign, n |-> 1, d |-> 1]

Sign(x) == IF x > 0 THEN 1 ELSE IF x < 0 THEN -1 ELSE 0

\* s * sqrt(a/b) for a >= 0 and b > 0
Root(sign, a, b) ==
    LET q == Rat(a, b)
    IN  [k |-> "num", s |-> IF q.n = 0 THEN 0 ELSE sign, n |-> q.n, d |-> q.d]

\* np.sqrt of a variance: the root of a number >= 0, nan of a nan
NpSqrt(v) == IF v.k = "num" /\ v.n >= 0 THEN Root(1, v.n, v.d) ELSE NaNRoot

RECURSIVE MaxOf(_)
MaxOf(s) ==
    IF Len(s) = 1 THEN Head(s).v
    ELSE LET m == MaxOf(Tail(s)) IN IF Head(s).v > m THEN Head(s).v ELSE m

\* np.nanmax(data)/local_rms for a non-empty data: the largest finite entry
\* (nan when there is none) over the rms, with numpy's x/0 = inf, 0/0 = nan
PeakOverRms(d, rms) ==
    LET f == Finite(d)
    IN  IF Len(f) = 0 \/ rms.k # "num" THEN NaNRoot
        ELSE LET p == MaxOf(f)
             IN  IF rms.n = 0 THEN (IF p = 0 THEN NaNRoot ELSE InfRoot(Sign(p)))
                 ELSE Root(Sign(p), p * p * rms.d, rms.n)

RECURSIVE Pow(_, _)
Pow(b, e) == IF e = 0 THEN 1 ELSE b * Pow(b, e - 1)

\* a logarithm that falls short of an exact power of two
RECURSIVE LogUpShort(_, _, _)
LogUpShort(a, b, e) == IF Pow(4, e + 1) * b < a THEN LogUpShort(a, b, e + 1) ELSE e

\* the largest e >= 0 with 4^e * b <= a, counted up from e, for a >= b > 0
RECURSIVE LogUp(_, _, _)
LogUp(a, b, e) == IF Pow(4, e + 1) * b <= a THEN LogUp(a, b, e + 1) ELSE e

\* the least q >= 1 with a * 4^q >= b, counted up from q, for 0 < a < b
RECURSIVE LogDown(_, _, _)
LogDown(a, b, q) == IF a * Pow(4, q) >= b THEN q ELSE LogDown(a, b, q + 1)

\* math.floor(math.log(x, 2)) for x = sqrt(a/b) > 0
FloorLog2(x) == IF x.n >= x.d THEN LogUp(x.n, x.d, 0) ELSE -LogDown(x.n, x.d, 1)

\* a floor that lets a nan and an infinity through
FloorLog2RaisesOnSign(x) ==
    IF x.k = "num" /\ x.s <= 0 THEN "ValueError" ELSE ""

\* the exception of math.floor(math.log(x, 2)), "" when it returns
FloorLog2Raises(x) ==
    CASE x.k = "nan" -> "ValueError"       \* floor of nan
      [] x.k = "inf" -> IF x.s > 0 THEN "OverflowError"   \* floor of inf
                        ELSE "ValueError"                 \* log of -inf
      [] OTHER       -> IF x.s <= 0 THEN "ValueError"     \* log of x <= 0
                        ELSE ""

\* np.logspace(0, stop, num=num, base=2.0) for num >= 0: 2 to the exponents
\* start + i*(stop - start)/(num - 1), here the exponents themselves
LogSpace(stop, num) ==
    [i \in 1..num |-> IF num = 1 THEN 0 ELSE ((i - 1) * stop) \div (num - 1)]

\* 3 * rms * 2^e
Level(rms, e) == Root(rms.s, 9 * Pow(4, e) * rms.n, rms.d)

InitC2 ==
    /\ pc = "idle"
    /\ data = <<>>
    /\ IdleVar
    /\ IdleC2
    /\ IdleCut

\* lines 204-205: the image is read and get_background_variance is called
\* on it with its default sigma_clip and tolerance (line 92)
CallCutouts2 ==
    /\ pc = "idle"
    /\ data' \in Arrays
    /\ sigma_clip' = [n |-> 5, d |-> 1]
    /\ tolerance' = [n |-> 1, d |-> 100]
    /\ pc' = "call"
    /\ UNCHANGED <<mean, data_clip, diff, iters, variance, varsC2, varsCut>>

\* line 205: the square root of the returned variance
LocalRms ==
    /\ pc = "done"
    /\ local_rms' = NpSqrt(variance)
    /\ pc' = "rms"
    /\ UNCHANGED <<highest_number_of_sigma, use_this_highest_power, contours, exc,
                   data, varsVar, varsCut>>

\* line 208; np.nanmax of an empty array raises
HighestNumberOfSigma ==
    /\ pc = "rms"
    /\ IF Len(data) = 0
       THEN /\ exc' = "ValueError"
            /\ pc' = "raised"
            /\ UNCHANGED highest_number_of_sigma
       ELSE /\ highest_number_of_sigma' = PeakOverRms(data, local_rms)
            /\ pc' = "ratio"
            /\ UNCHANGED exc
    /\ UNCHANGED <<local_rms, use_this_highest_power, contours, data, varsVar, varsCut>>

\* line 209
HighestPower ==
    /\ pc = "ratio"
    /\ IF FloorLog2Raises(highest_number_of_sigma) # ""
       THEN /\ exc' = FloorLog2Raises(highest_number_of_sigma)
            /\ pc' = "raised"
            /\ UNCHANGED use_this_highest_power
       ELSE /\ use_this_highest_power' = FloorLog2(highest_number_of_sigma)
            /\ pc' = "power"
            /\ UNCHANGED exc
    /\ UNCHANGED <<local_rms, highest_number_of_sigma, contours, data, varsVar, varsCut>>

\* line 210; np.logspace raises on a negative num
Contours ==
    /\ pc = "power"
    /\ IF use_this_highest_power + 1 < 0
       THEN /\ exc' = "ValueError"
            /\ pc' = "raised"
            /\ UNCHANGED contours
       ELSE /\ \E powers \in {LogSpace(use_this_highest_power, use_this_highest_power + 1)} :
                 contours' = [i \in 1..Len(powers) |-> Level(local_rms, powers[i])]
            /\ pc' = "levels"
            /\ UNCHANGED exc
    /\ UNCHANGED <<local_rms, highest_number_of_sigma, use_this_highest_power,
                   data, varsVar, varsCut>>

\* line 217: the radio cutout is reprojected, to be drawn with the levels
Reproject ==
    /\ pc = "levels"
    /\ pc' = "reprojected"
    /\ UNCHANGED <<data, varsVar, varsC2, varsCut>>

NextC2 ==
    \/ CallCutouts2
    \/ Initialise \/ Iterate \/ Return
    \/ LocalRms \/ HighestNumberOfSigma \/ HighestPower \/ Contours \/ Reproject

SpecC2 == InitC2 /\ [][NextC2]_vars

----------------------------------------------------------------------------
(* Properties of get_background_variance *)

NoNaN(s) == \A i \in 1..Len(s) : ~s[i].nan

\* x lies beyond sigma_clip standard deviations of the mean of s
Outlier(x, s, clip) ==
    LET f == Finite(s)
        dv == Len(f) * x.v - Sum(f)
    IN  dv * dv * clip.d * clip.d > clip.n * clip.n * Dev(s)

\* np.abs(x) > mn + clip*np.nanstd(s), for a finite x and a numeric mn
Exceeds(x, mn, clip, s) ==
    LET m == Len(Finite(s))
        L == (Abs(x.v) * mn.d - mn.n) * clip.d * m
        R == clip.n * mn.d
    IN  L > 0 /\ L * L > R * R * Dev(s)

\* C3: the loop of get_background_variance terminates: every run reaches
\* the return, after at most len(data) + 1 iterations, and no iteration
\* makes the working subset longer.
C3_Terminates ==
    /\ (pc = "call") ~> (pc = "done")
    /\ [](iters <= Len(data) + 1)
    /\ [][pc = "while" => Len(data_clip') <= Len(data_clip)]_vars

\* a run that clipped in two successive iterations before it returned
C3_Witness == pc = "done" /\ iters >= 3 /\ Len(data_clip) < Len(data)

\* C4 (as claimed): an iteration in which mean + mean' is zero leaves the
\* loop test unsatisfied, so that the loop stops without clipping again.
C4_ZeroDenominatorStops ==
    [][(pc = "while" /\ iters' = iters + 1
          /\ mean.k = "num" /\ mean'.k = "num"
          /\ mean.n * mean'.d + mean'.n * mean.d = 0)
        => ~Gt(diff', tolerance)]_vars

\* C5 (as claimed): a non-empty input without outliers takes exactly one
\* iteration, loses no sample and yields the population variance of the input.
C5_NoOutliersOneIteration ==
    (/\ pc = "done"
     /\ Len(data) > 0
     /\ NoNaN(data)
     /\ \A i \in 1..Len(data) : ~Outlier(data[i], data, sigma_clip))
    => (/\ iters = 1
        /\ data_clip = data
        /\ variance = Rat(Dev(data), Len(data) * Len(data)))

\* C9 (as claimed): an iteration removes exactly the samples x with
\* |x| > mean + sigma_clip * stddev(subset); a sample at the threshold stays.
C9_ClipRemovesExceeding ==
    [][(pc = "while" /\ iters' = iters + 1 /\ NoNaN(data_clip) /\ Len(data_clip) > 0)
        => data_clip' = SelectSeq(data_clip,
                            LAMBDA x : ~Exceeds(x, mean, sigma_clip, data_clip))]_vars

\* C10 (as claimed): with at least one finite sample in the input the
\* working subset is never empty and the returned variance is a number >= 0.
C10_SubsetNeverEmpty ==
    (Len(Finite(data)) > 0 /\ pc \in {"while", "done"})
    => (/\ Len(data_clip) > 0
        /\ pc = "done" => (variance.k = "num" /\ variance.n >= 0))

----------------------------------------------------------------------------
(* Properties of the cutout *)

InParent(r, c) == r \in 0..(arr.shape[1] - 1) /\ c \in 0..(arr.shape[2] - 1)

\* the requested window [r0, r1) x [c0, c1) meets the parent but is not inside it
PartlyOverlaps ==
    /\ \E r \in oslicer[1]..(oslicer[2] - 1), c \in oslicer[3]..(oslicer[4] - 1) :
          InParent(r, c)
    /\ \E r \in oslicer[1]..(oslicer[2] - 1), c \in oslicer[3]..(oslicer[4] - 1) :
          ~InParent(r, c)

\* C1 (as claimed): the cutout has shape (size, size) whatever the size and
\* the pixel centre are.
C1_ShapeIsSizeSize == pc = "cut" => icut.shape = <<isize, isize>>

\* C2 (as claimed): when the window partly overlaps the parent, a parent cell
\* of the window is found at its offset within the window and a cell whose
\* window position is outside the parent is 0.
C2_CellsAtWindowOffset ==
    (pc = "cut" /\ PartlyOverlaps)
    => \A i \in 0..(isize - 1), j \in 0..(isize - 1) :
         LET r == oslicer[1] + i
             c == oslicer[3] + j
         IN  /\ <<i, j>> \in DOMAIN icut.cell
             /\ (InParent(r, c) /\ r < oslicer[2] /\ c < oslicer[4])
                   => icut.cell[<<i, j>>] = arr.cell[<<r, c>>]
             /\ ~InParent(r, c) => icut.cell[<<i, j>>] = 0

----------------------------------------------------------------------------
(* Properties of the contour levels *)

\* line 205 to line 210 have run, or one of them raised
AfterLevels == pc \in {"levels", "reprojected", "raised"}

\* sigma = local_rms is a number > 0
SigmaPositive == local_rms.k = "num" /\ local_rms.n > 0

Peak == MaxOf(Finite(data))

\* ratio = peak / sigma <= 1, for sigma > 0
RatioAtMostOne ==
    /\ Len(Finite(data)) > 0
    /\ SigmaPositive
    /\ (Peak <= 0 \/ Peak * Peak * local_rms.d <= local_rms.n)

\* ratio = peak / sigma > 1, for sigma > 0
RatioAboveOne ==
    /\ Len(Finite(data)) > 0
    /\ SigmaPositive
    /\ Peak > 0
    /\ Peak * Peak * local_rms.d > local_rms.n

\* C6 (as claimed): with sigma > 0 and peak / sigma <= 1 the levels are the
\* single level k * sigma; nothing is raised and the levels are not empty.
C6_RatioAtMostOneSingleLevel ==
    (AfterLevels /\ RatioAtMostOne)
    => (pc # "raised" /\ contours = <<Root(1, 9 * local_rms.n, local_rms.d)>>)

Degenerate ==
    /\ pc \in {"rms", "ratio", "power", "levels", "reprojected", "raised"}
    /\ (variance.k = "nan" \/ variance.n = 0)

====
